---- MODULE Spec2Model ----
(***************************************************************************)
(* Model of the cursor-deepseek proxy: one inbound HTTP exchange travelling *)
(* through the server's middleware chain, the route handler, a backend      *)
(* adapter, the call to the provider and the unary handler or streaming     *)
(* relay that answers the caller.                                           *)
(*                                                                         *)
(* Strings that the code slices (the Authorization header) are sequences   *)
(* of tokens, so that strings.TrimPrefix is computed, not assumed.         *)
(***************************************************************************)
EXTENDS Integers, Sequences, FiniteSets, TLC

VARIABLES cfg, req, pc, w, ctxs, prov, up, relay, ret, now, logs

vars == <<cfg, req, pc, w, ctxs, prov, up, relay, ret, now, logs>>

----------------------------------------------------------------------------
(* Bounds *)

MaxChunks == 3          \* upstream stream lines per exchange
MaxTime == 1            \* wall-clock seconds that may pass during an exchange

----------------------------------------------------------------------------
(* Configuration values *)

\* the secret of the configuration file, as a token string
Secret == <<"s1">>
NoSecret == <<>>

\* backend drafts of the repository
\*   "openrouter": openrouterBackend (HandleChatCompletion writes its errors)
\*   "ollama":     ollamaBackend     (HandleChatCompletion writes its errors)
\*   "ollamaA":    ollama.Backend    (HandleChatCompletion returns an error)
\*   "deepseek":   deepseekBackend   (HandleChatCompletions(w, r))
Backends == {"openrouter", "ollama", "ollamaA", "deepseek"}

\* model-name mapping of the configuration (ollamaBackend.models)
MappedNames == {"gpt-4o"}
Models == [m \in MappedNames |-> "llama3"]
DefaultModel == "llama2"
RequestedNames == {"gpt-4o", "my-model"}

\* the model a backend is constructed with (openrouter / deepseek: b.model)
BackendModel == "deepseek-chat"

\* what the provider calls the model and the response in its own answers
ProviderResponseId == <<"prov-id", 0>>

Bearer == "Bearer "

----------------------------------------------------------------------------
(* Strings *)

\* strings.TrimPrefix(s, "Bearer ")
TrimPrefix(s) == IF Len(s) > 0 /\ s[1] = Bearer THEN Tail(s) ELSE s

\* strings.HasPrefix(s, "Bearer ")
HasPrefix(s) == Len(s) > 0 /\ s[1] = Bearer

\* subtle.ConstantTimeCompare(a, b) == 1
SecureCompareString(a, b) ==
    /\ Len(a) = Len(b)
    /\ \A i \in 1..Len(a) : a[i] = b[i]

----------------------------------------------------------------------------
(* Contexts: a tree of cancellation scopes *)

\* "bg":   context.Background(), the server's base context (never cancelled)
\* "conn": the context net/http gives the inbound request; cancelled when
\*         the client disconnects
RootCtxs == [parent |-> [c \in {"bg", "conn"} |-> IF c = "conn" THEN "bg" ELSE "none"],
             timer |-> {}, cancelled |-> {}]

RECURSIVE Done(_, _)
Done(cs, c) ==
    IF c = "none" \/ c \notin DOMAIN cs.parent THEN FALSE
    ELSE c \in cs.cancelled \/ Done(cs, cs.parent[c])

\* context.WithCancel / WithTimeout / WithValue(parent): a child scope
WithChild(cs, c, p, timed) ==
    [cs EXCEPT !.parent = [x \in DOMAIN cs.parent \cup {c} |->
                              IF x = c THEN p ELSE cs.parent[x]],
               !.timer = IF timed THEN @ \cup {c} ELSE @]

Cancel(cs, c) == [cs EXCEPT !.cancelled = @ \cup {c}]

\* does a deadline lie on the path from c to the root
RECURSIVE HasDeadline(_, _)
HasDeadline(cs, c) ==
    IF c = "none" \/ c \notin DOMAIN cs.parent THEN FALSE
    ELSE c \in cs.timer \/ HasDeadline(cs, cs.parent[c])

\* Logger.Clone: the returned context is derived from the logger's own
\* context (the one server.New was given), not from the caller's context
Clone(cs) == WithChild(cs, "be", "bg", FALSE)

----------------------------------------------------------------------------
(* Header maps and the response writer *)

NoHeaders == [k \in {} |-> ""]

SetH(h, k, v) == [x \in DOMAIN h \cup {k} |-> IF x = k THEN v ELSE h[x]]

DelH(h, k) == [x \in DOMAIN h \ {k} |-> h[x]]

\* headers that describe the transport of one hop
skipHeaders == {"Content-Length", "Content-Encoding", "Transfer-Encoding", "Connection"}

\* copyHeaders(dst, src): every header of src but the transport-only ones
copyHeaders(dst, src) ==
    [x \in DOMAIN dst \cup (DOMAIN src \ skipHeaders) |->
        IF x \in DOMAIN src \ skipHeaders THEN src[x] ELSE dst[x]]

\* maps.Copy(w.Header(), resp.Header) and "for k, v := range resp.Header"
mapsCopy(dst, src) ==
    [x \in DOMAIN dst \cup DOMAIN src |-> IF x \in DOMAIN src THEN src[x] ELSE dst[x]]

\* a fresh http.ResponseWriter of the connection
\*   status 0: nothing committed yet; hdr: w.Header(); sent: headers on the wire
NewWriter == [status |-> 0, hdr |-> NoHeaders, sent |-> NoHeaders, body |-> <<>>,
              extra |-> 0, wrapped |-> FALSE, flushes |-> 0]

HeaderSet(ww, k, v) == [ww EXCEPT !.hdr = SetH(@, k, v)]

\* w.WriteHeader(code): commits status and headers once; later calls are
\* superfluous and change nothing on the wire
WriteHeader(ww, code) ==
    IF ww.status = 0
    THEN [ww EXCEPT !.status = code, !.sent = ww.hdr]
    ELSE [ww EXCEPT !.extra = @ + 1]

\* w.Write(b): commits 200 if nothing was committed
Write(ww, b) ==
    LET c == IF ww.status = 0 THEN [ww EXCEPT !.status = 200, !.sent = ww.hdr] ELSE ww
    IN [c EXCEPT !.body = Append(@, b)]

\* http.Error(w, msg, code)
HttpError(ww, msg, code) ==
    LET h1 == [ww EXCEPT !.hdr = SetH(SetH(DelH(@, "Content-Length"),
                                   "Content-Type", "text/plain"),
                                   "X-Content-Type-Options", "nosniff")]
    IN Write(WriteHeader(h1, code), [t |-> "text", msg |-> msg])

\* w.(http.Flusher): the connection's writer flushes; the logging
\* middleware's responseWriter embeds the ResponseWriter interface only
IsFlusher(ww) == ~ww.wrapped

Flush(ww) ==
    LET c == IF ww.status = 0 THEN [ww EXCEPT !.status = 200, !.sent = ww.hdr] ELSE ww
    IN [c EXCEPT !.flushes = 1]

----------------------------------------------------------------------------
(* Construction *)

\* NewOpenrouterBackend(opts)
NewOpenrouterBackend(key) == [name |-> "openrouter", apikey |-> key, model |-> BackendModel]

\* NewOllamaBackend(opts)
NewOllamaBackend(key) == [name |-> "ollama", apikey |-> key, model |-> DefaultModel]

\* ollama.New(opts): Options carry no key
New(key) == [name |-> "ollamaA", apikey |-> NoSecret, model |-> DefaultModel]

\* NewDeepseekBackend(opts): endpoint and model are kept, opts.ApiKey is not
NewDeepseekBackend(key) == [name |-> "deepseek", apikey |-> NoSecret, model |-> BackendModel]

NewBackend(name, key) ==
    CASE name = "openrouter" -> NewOpenrouterBackend(key)
      [] name = "ollama" -> NewOllamaBackend(key)
      [] name = "ollamaA" -> New(key)
      [] OTHER -> NewDeepseekBackend(key)

\* which server draft fronts which backend draft
\*   "wrap":  server.Server with middleware.Wrap (HandleChatCompletion writes)
\*   "plain": server.Server with LoggingMiddleware (HandleChatCompletion returns error)
\*   "proxy": handler.proxyHandler (HandleChatCompletions(w, r))
ServerOf(name) ==
    CASE name \in {"openrouter", "ollama"} -> "wrap"
      [] name = "ollamaA" -> "plain"
      [] OTHER -> "proxy"

\* the configurations the entry points can build: the proxy main refuses to
\* start without a key, and ollama.Options has no key
AllConfigs ==
    {[b |-> NewBackend(n, k), apikey |-> k, entry |-> e] :
        n \in Backends, k \in {Secret, NoSecret}, e \in {"server", "direct"}}

Configs ==
    {c \in AllConfigs : /\ ~(c.b.name = "deepseek" /\ c.apikey = NoSecret)
                        /\ ~(c.b.name = "ollamaA" /\ c.apikey = Secret)}

----------------------------------------------------------------------------
(* The inbound request *)

Methods == {"POST", "GET", "OPTIONS"}
ChatPath == "/v1/chat/completions"
ModelsPath == "/v1/models"
Paths == {ChatPath, ModelsPath, "/other"}

\* Authorization header values a client may send ("" is the absent header)
AuthHeaders == {<<>>, <<Bearer, "s1">>, <<"s1">>, <<Bearer, "bad">>, <<Bearer>>}

NoReq == [method |-> "none", path |-> "none", auth |-> <<>>, model |-> "none",
          stream |-> FALSE, bodyOK |-> FALSE, ctx |-> "none"]

\* the outbound call: how often the provider was called, what the request
\* carried, the context bound to it, whether http.Client.Timeout is set,
\* whether that timeout fired, whether resp.Body is open
NoProv == [calls |-> 0, model |-> "none", auth |-> <<>>, ctx |-> "none",
           ctimeout |-> FALSE, abort |-> FALSE, open |-> FALSE, orig |-> "none"]

NoBody == [t |-> "none", coding |-> "identity"]

NoUp == [status |-> 0, hdr |-> NoHeaders, body |-> NoBody, lines |-> <<>>,
         eof |-> FALSE, failed |-> FALSE]

\* the streaming relay: OPEN/CLOSED, the context it watches, lines consumed,
\* lines buffered towards one event, the heartbeat task
NoRelay == [state |-> "none", ctx |-> "none", pos |-> 0, buf |-> <<>>,
            hb |-> "none", beats |-> 0]

Log(src, msg) == logs \cup {[src |-> src, msg |-> msg]}

Init ==
    /\ cfg \in Configs
    /\ req = NoReq
    /\ pc = "idle"
    /\ w = NewWriter
    /\ ctxs = RootCtxs
    /\ prov = NoProv
    /\ up = NoUp
    /\ relay = NoRelay
    /\ ret = "none"
    /\ now = 0
    /\ logs = {}

\* where control goes when the route handler or backend returns
AfterHandler ==
    IF cfg.entry = "direct" THEN "done"
    ELSE IF ServerOf(cfg.b.name) = "proxy" THEN "finish" ELSE "logReturn"

\* a request arrives on a connection (entry "server"), or a caller hands a
\* decoded request and its own writer to the backend (entry "direct")
Arrive ==
    /\ pc = "idle"
    /\ \E m \in Methods, p \in Paths, a \in AuthHeaders, mo \in RequestedNames,
          s \in BOOLEAN, ok \in BOOLEAN :
        /\ cfg.entry = "direct" => (m = "POST" /\ p = ChatPath /\ a = <<>>
                                    /\ (ok \/ cfg.b.name = "deepseek"))
        /\ req' = [method |-> m, path |-> p, auth |-> a, model |-> mo,
                   stream |-> s, bodyOK |-> ok, ctx |-> "conn"]
    /\ pc' = IF cfg.entry = "direct" THEN "backend"
             ELSE CASE ServerOf(cfg.b.name) = "wrap" -> "withContext"
                    [] ServerOf(cfg.b.name) = "plain" -> "LoggingMiddleware"
                    [] OTHER -> "proxyHandler"
    /\ UNCHANGED <<cfg, w, ctxs, prov, up, relay, ret, now, logs>>

----------------------------------------------------------------------------
(* middleware.Wrap: withContext -> withLogging -> withCors -> withApiKeyAuth *)

\* withContext: timeout and request id on the request's context
withContext ==
    /\ pc = "withContext"
    /\ ctxs' = WithChild(ctxs, "req", req.ctx, TRUE)
    /\ req' = [req EXCEPT !.ctx = "req"]
    /\ w' = HeaderSet(w, "X-Request-ID", "rid")
    /\ pc' = "withLogging"
    /\ UNCHANGED <<cfg, prov, up, relay, ret, now, logs>>

\* withLogging, before next.ServeHTTP: the writer is wrapped
withLogging ==
    /\ pc = "withLogging"
    /\ w' = [w EXCEPT !.wrapped = TRUE]
    /\ pc' = "withCors"
    /\ UNCHANGED <<cfg, req, ctxs, prov, up, relay, ret, now, logs>>

\* withLogging, after next.ServeHTTP returned: one line about the response
withLoggingReturn ==
    /\ pc = "logReturn"
    /\ logs' = Log("withLogging", <<"response">>)
    /\ pc' = "finish"
    /\ UNCHANGED <<cfg, req, w, ctxs, prov, up, relay, ret, now>>

\* withCors: CORS headers on every response; OPTIONS ends here with no body
withCors ==
    /\ pc = "withCors"
    /\ w' = HeaderSet(w, "Access-Control-Allow-Origin", "*")
    /\ pc' = IF req.method = "OPTIONS" THEN "logReturn"
             ELSE IF cfg.apikey # NoSecret THEN "withApiKeyAuth" ELSE "mux"
    /\ UNCHANGED <<cfg, req, ctxs, prov, up, relay, ret, now, logs>>

\* ValidateAPIKey of the configured backend
ValidateAPIKey(b, apiKey) ==
    IF b.name = "ollamaA" THEN TRUE
    ELSE SecureCompareString(apiKey, b.apikey)

\* withApiKeyAuth
withApiKeyAuth ==
    /\ pc = "withApiKeyAuth"
    /\ LET apiKey == TrimPrefix(req.auth) IN
        IF apiKey = <<>>
        THEN /\ logs' = Log("auth", <<"No API Key provided">>)
             /\ w' = HttpError(w, "Missing API key", 401)
             /\ pc' = "logReturn"
        ELSE IF ~ValidateAPIKey(cfg.b, apiKey)
        THEN /\ logs' = Log("auth", apiKey) \cup {[src |-> "auth", msg |-> <<"Invalid API Key provided">>]}
             /\ w' = HttpError(w, "Invalid API key", 403)
             /\ pc' = "logReturn"
        ELSE /\ logs' = Log("auth", apiKey)
             /\ w' = w
             /\ pc' = "mux"
    /\ UNCHANGED <<cfg, req, ctxs, prov, up, relay, ret, now>>

\* http.ServeMux with the two registered routes
mux ==
    /\ pc = "mux"
    /\ IF req.path = ChatPath THEN pc' = "handleChatCompletions" /\ w' = w
       ELSE IF req.path = ModelsPath THEN pc' = "handleModels" /\ w' = w
       ELSE pc' = "logReturn" /\ w' = HttpError(w, "404 page not found", 404)
    /\ UNCHANGED <<cfg, req, ctxs, prov, up, relay, ret, now, logs>>

\* Server.handleChatCompletions up to the call of the backend
handleChatCompletions ==
    /\ pc = "handleChatCompletions"
    /\ IF req.method # "POST"
       THEN w' = HttpError(w, "Method not allowed", 405) /\ pc' = "logReturn"
       ELSE IF ~req.bodyOK
       THEN w' = HttpError(w, "error parsing request", 400) /\ pc' = "logReturn"
       ELSE w' = w /\ pc' = "backend"
    /\ UNCHANGED <<cfg, req, ctxs, prov, up, relay, ret, now, logs>>

\* ListModels of the configured backend: the ids it reports
ListModels(b) ==
    IF b.name = "ollama" THEN (IF MappedNames = {} THEN {b.model} ELSE MappedNames)
    ELSE {b.model}

\* Server.handleModels
handleModels ==
    /\ pc = "handleModels"
    /\ IF req.method # "GET"
       THEN w' = HttpError(w, "Method not allowed", 405)
       ELSE w' = Write(HeaderSet(w, "Content-Type", "application/json"),
                       [t |-> "models", ids |-> ListModels(cfg.b)])
    /\ pc' = "logReturn"
    /\ UNCHANGED <<cfg, req, ctxs, prov, up, relay, ret, now, logs>>

\* net/http after the outermost handler returned: an uncommitted response is
\* committed as 200 with no body, and the request's context is cancelled
finishRequest ==
    /\ pc = "finish"
    /\ w' = IF w.status = 0 THEN WriteHeader(w, 200) ELSE w
    /\ ctxs' = Cancel(ctxs, "conn")
    /\ pc' = "done"
    /\ UNCHANGED <<cfg, req, prov, up, relay, ret, now, logs>>

----------------------------------------------------------------------------
(* server.Server with LoggingMiddleware (the error-returning contract) *)

\* LoggingMiddleware, before next.ServeHTTP
LoggingMiddleware ==
    /\ pc = "LoggingMiddleware"
    /\ ctxs' = WithChild(ctxs, "req", req.ctx, FALSE)
    /\ req' = [req EXCEPT !.ctx = "req"]
    /\ w' = [HeaderSet(w, "X-Request-ID", "rid") EXCEPT !.wrapped = TRUE]
    /\ logs' = Log("LoggingMiddleware", <<"request">>)
    /\ pc' = IF req.path = ChatPath THEN "handleChatCompletionsA"
             ELSE IF req.path = ModelsPath THEN "handleModelsA" ELSE "notFoundA"
    /\ UNCHANGED <<cfg, prov, up, relay, ret, now>>

\* the mux's answer for an unregistered path
notFoundA ==
    /\ pc = "notFoundA"
    /\ w' = HttpError(w, "404 page not found", 404)
    /\ pc' = "logReturn"
    /\ UNCHANGED <<cfg, req, ctxs, prov, up, relay, ret, now, logs>>

enableCORS(ww) == HeaderSet(ww, "Access-Control-Allow-Origin", "*")

\* Server.handleChatCompletions up to the call of the backend
handleChatCompletionsA ==
    /\ pc = "handleChatCompletionsA"
    /\ LET w1 == enableCORS(w)
           apiKey == TrimPrefix(req.auth) IN
       IF req.method = "OPTIONS" THEN w' = w1 /\ pc' = "logReturn" /\ logs' = logs
       ELSE IF req.method # "POST"
       THEN /\ w' = HttpError(w1, "Method not allowed", 405)
            /\ pc' = "logReturn"
            /\ logs' = Log("server", <<"Invalid method">>)
       ELSE IF ~ValidateAPIKey(cfg.b, apiKey)
       THEN /\ w' = HttpError(w1, "Invalid API key", 401)
            /\ pc' = "logReturn"
            /\ logs' = Log("server", <<"Invalid API key">>)
       ELSE IF ~req.bodyOK
       THEN /\ w' = HttpError(w1, "error parsing request", 400)
            /\ pc' = "logReturn"
            /\ logs' = Log("server", <<"Error parsing request">>)
       ELSE w' = w1 /\ pc' = "backend" /\ logs' = logs
    /\ UNCHANGED <<cfg, req, ctxs, prov, up, relay, ret, now>>

\* Server.handleChatCompletions after HandleChatCompletion returned
handleChatCompletionsReturn ==
    /\ pc = "returnA"
    /\ IF ret = "err"
       THEN /\ w' = HttpError(w, "Internal server error", 500)
            /\ logs' = Log("server", <<"Error handling chat completion">>)
       ELSE w' = w /\ logs' = logs
    /\ pc' = "logReturn"
    /\ UNCHANGED <<cfg, req, ctxs, prov, up, relay, ret, now>>

\* Server.handleModels
handleModelsA ==
    /\ pc = "handleModelsA"
    /\ LET w1 == enableCORS(w) IN
       IF req.method = "OPTIONS" THEN w' = w1
       ELSE IF req.method # "GET" THEN w' = HttpError(w1, "Method not allowed", 405)
       ELSE w' = Write(HeaderSet(w1, "Content-Type", "application/json"),
                       [t |-> "models", ids |-> ListModels(cfg.b)])
    /\ pc' = "logReturn"
    /\ UNCHANGED <<cfg, req, ctxs, prov, up, relay, ret, now, logs>>

----------------------------------------------------------------------------
(* handler.proxyHandler (the HandleChatCompletions(w, r) contract) *)

proxyHandler ==
    /\ pc = "proxyHandler"
    /\ LET w1 == enableCORS(w)
           userAPIKey == TrimPrefix(req.auth) IN
       IF req.method = "OPTIONS"
       THEN w' = WriteHeader(w1, 200) /\ pc' = "finish" /\ logs' = logs
       ELSE IF ~HasPrefix(req.auth)
       THEN /\ w' = HttpError(w1, "Missing or invalid Authorization header", 401)
            /\ pc' = "finish"
            /\ logs' = Log("proxy", <<"Missing or invalid Authorization header">>)
       ELSE IF userAPIKey # cfg.apikey
       THEN /\ w' = HttpError(w1, "Invalid API key", 403)
            /\ pc' = "finish"
            /\ logs' = Log("proxy", <<"Invalid API key provided">>)
       ELSE IF req.path = ChatPath THEN w' = w1 /\ pc' = "backend" /\ logs' = logs
       ELSE IF req.path = ModelsPath
       THEN /\ w' = Write(HeaderSet(w1, "Content-Type", "application/json"),
                          [t |-> "models", ids |-> ListModels(cfg.b)])
            /\ pc' = "finish"
            /\ logs' = Log("deepseek", <<"Handling models request">>)
       ELSE w' = HttpError(w1, "Not found", 404) /\ pc' = "finish" /\ logs' = logs
    /\ UNCHANGED <<cfg, req, ctxs, prov, up, relay, ret, now>>

----------------------------------------------------------------------------
(* The backends, up to the call of the provider *)

\* a provider call that is attempted a second time
CallWithRetry(model, auth, c, ctimeout, orig) ==
    [calls |-> prov.calls + 2, model |-> model, auth |-> auth, ctx |-> c,
     ctimeout |-> ctimeout, abort |-> FALSE, open |-> FALSE, orig |-> orig]

\* the provider call is in flight
Call(model, auth, c, ctimeout, orig) ==
    [calls |-> prov.calls + 1, model |-> model, auth |-> auth, ctx |-> c,
     ctimeout |-> ctimeout, abort |-> FALSE, open |-> FALSE, orig |-> orig]

\* openrouterBackend.HandleChatCompletion, up to client.Do
openrouterHandleChatCompletion ==
    /\ pc = "backend" /\ cfg.b.name = "openrouter"
    /\ \E marshalOK \in BOOLEAN :
        LET cs1 == Clone(ctxs)
            originalModel == req.model
            cs2 == IF ~req.stream THEN WithChild(cs1, "call", "be", TRUE) ELSE cs1
            c == IF ~req.stream THEN "call" ELSE "be"
        IN IF ~marshalOK
           THEN /\ w' = HttpError(w, "Error creating modified request", 500)
                /\ logs' = Log("openrouter", <<"error creating modified request body">>)
                /\ ctxs' = cs1
                /\ pc' = AfterHandler
                /\ prov' = prov
           ELSE /\ prov' = Call(cfg.b.model, <<Bearer>> \o cfg.b.apikey, c, FALSE, originalModel)
                /\ ctxs' = cs2
                /\ pc' = "calling"
                /\ w' = w
                /\ logs' = Log("openrouter", <<"Forwarding">>)
    /\ UNCHANGED <<cfg, req, up, relay, ret, now>>

\* the mapped model of ollamaBackend: b.models[originalModel] or b.defaultModel
mappedModel(b, originalModel) ==
    IF originalModel \in DOMAIN Models THEN Models[originalModel] ELSE b.model

\* ollamaBackend.HandleChatCompletion, up to http.Post
ollamaHandleChatCompletion ==
    /\ pc = "backend" /\ cfg.b.name = "ollama"
    /\ \E marshalOK \in BOOLEAN :
        LET originalModel == req.model IN
        IF ~marshalOK
        THEN /\ w' = HttpError(w, "error marshalling ollama request", 500)
             /\ logs' = Log("ollama", <<"error marshalling ollama request">>)
             /\ pc' = AfterHandler
             /\ prov' = prov
        ELSE /\ prov' = Call(mappedModel(cfg.b, originalModel), <<>>, "none", FALSE, originalModel)
             /\ pc' = "calling"
             /\ w' = w
             /\ logs' = Log("ollama", <<"Model converted">>)
    /\ ctxs' = Clone(ctxs)
    /\ UNCHANGED <<cfg, req, up, relay, ret, now>>

\* ollama.Backend.HandleChatCompletion, up to b.client.Do
ollamaAHandleChatCompletion ==
    /\ pc = "backend" /\ cfg.b.name = "ollamaA"
    /\ \E marshalOK \in BOOLEAN :
        IF ~marshalOK
        THEN /\ ret' = "err"
             /\ logs' = Log("ollamaA", <<"Error marshaling request">>)
             /\ pc' = IF cfg.entry = "direct" THEN "done" ELSE "returnA"
             /\ prov' = prov
        ELSE /\ prov' = Call(cfg.b.model, <<>>, req.ctx, TRUE, cfg.b.model)
             /\ pc' = "calling"
             /\ ret' = ret
             /\ logs' = Log("ollamaA", <<"Sending request to Ollama API">>)
    /\ UNCHANGED <<cfg, req, w, ctxs, up, relay, now>>

\* deepseekBackend.HandleChatCompletions, up to client.Do
deepseekHandleChatCompletions ==
    /\ pc = "backend" /\ cfg.b.name = "deepseek"
    /\ \E marshalOK \in BOOLEAN :
        LET originalModel == req.model IN
        IF ~req.bodyOK
        THEN /\ w' = HttpError(w, "Invalid JSON", 400)
             /\ logs' = Log("deepseek", <<"Error parsing request JSON">>)
             /\ pc' = AfterHandler
             /\ prov' = prov
        ELSE IF ~marshalOK
        THEN /\ w' = HttpError(w, "Error creating modified request", 500)
             /\ logs' = Log("deepseek", <<"Error creating modified request body">>)
             /\ pc' = AfterHandler
             /\ prov' = prov
        ELSE /\ prov' = Call(cfg.b.model, <<Bearer>> \o cfg.b.apikey, "none", TRUE, originalModel)
             /\ pc' = "calling"
             /\ w' = w
             /\ logs' = Log("deepseek", <<"Forwarding">>)
    /\ UNCHANGED <<cfg, req, ctxs, up, relay, ret, now>>

----------------------------------------------------------------------------
(* The environment: client, timers, provider *)

InBackend == pc \in {"calling", "response", "relay"}

\* the client goes away (or the direct caller cancels its context)
ClientDisconnect ==
    /\ InBackend
    /\ "conn" \notin ctxs.cancelled
    /\ ctxs' = Cancel(ctxs, "conn")
    /\ UNCHANGED <<cfg, req, pc, w, prov, up, relay, ret, now, logs>>

\* the deadline of a context created with WithTimeout passes
DeadlineExceeded ==
    /\ InBackend
    /\ \E c \in ctxs.timer \ ctxs.cancelled : ctxs' = Cancel(ctxs, c)
    /\ UNCHANGED <<cfg, req, pc, w, prov, up, relay, ret, now, logs>>

\* http.Client.Timeout passes: the call and the reads of its body fail
ClientTimeout ==
    /\ InBackend
    /\ prov.ctimeout /\ ~prov.abort
    /\ prov' = [prov EXCEPT !.abort = TRUE]
    /\ UNCHANGED <<cfg, req, pc, w, ctxs, up, relay, ret, now, logs>>

\* the outbound exchange was aborted by its context or the client timeout
Aborted == prov.abort \/ Done(ctxs, prov.ctx)

\* how a backend answers the caller when client.Do / http.Post fails
OnCallError(ww) ==
    CASE cfg.b.name = "openrouter" -> HttpError(ww, "Error forwarding request", 502)
      [] cfg.b.name = "deepseek" -> HttpError(ww, "Error forwarding request", 502)
      [] cfg.b.name = "ollama" -> HttpError(ww, "error POSTing ollama request: cause", 500)
      [] OTHER -> ww

\* control after a backend returned, with or without an error value
Returned == IF cfg.b.name = "ollamaA" /\ cfg.entry = "server" THEN "returnA" ELSE AfterHandler

\* the call fails: DNS, connect, or aborted by context or timeout
CallFails ==
    /\ pc = "calling"
    /\ w' = OnCallError(w)
    /\ ret' = IF cfg.b.name = "ollamaA" THEN "err" ELSE ret
    /\ logs' = Log(cfg.b.name, <<"error forwarding request">>)
    /\ pc' = Returned
    /\ UNCHANGED <<cfg, req, ctxs, prov, up, relay, now>>

UpStatuses == {200, 429, 500}
UpHeaderNames == {"Content-Length", "Content-Encoding", "Transfer-Encoding",
                  "Connection", "X-Ratelimit-Remaining"}
HeaderValue(k) == IF k = "Content-Encoding" THEN "gzip" ELSE "v"
UpHeaders(names) == [k \in names |-> HeaderValue(k)]
ProviderModelId == "provider-model-id"

\* bodies a provider sends: a completion, its own error object, or bytes
\* that are not JSON; coding is how the bytes are actually compressed
UpBodies ==
    {[t |-> "completion", coding |-> c] : c \in {"identity", "gzip"}}
    \cup {[t |-> "error", coding |-> "identity"], [t |-> "garbage", coding |-> "identity"]}

\* the provider's response head (and, for a unary exchange, body) arrives
ProviderRespond ==
    /\ pc = "calling" /\ ~Aborted
    /\ \E st \in UpStatuses, names \in SUBSET UpHeaderNames, b \in UpBodies :
        /\ st < 400 => names \subseteq {"Content-Encoding"}
        /\ st >= 400 => b.t # "completion"
        /\ (st < 400 /\ req.stream) => (b.t = "garbage" /\ names = {})
        /\ \E nl \in BOOLEAN :
            /\ ~(st >= 400 /\ req.stream /\ cfg.b.name = "ollama") => nl
            /\ up' = [status |-> st, hdr |-> UpHeaders(names),
                      body |-> IF st < 400 /\ req.stream THEN NoBody ELSE b,
                      lines |-> IF st >= 400 /\ req.stream
                                THEN <<[k |-> b.t, done |-> FALSE, nl |-> nl, n |-> 0,
                                        model |-> "", id |-> <<"", 0>>]>>
                                ELSE <<>>,
                      eof |-> st >= 400 /\ req.stream, failed |-> FALSE]
    /\ prov' = [prov EXCEPT !.open = TRUE]
    /\ pc' = "response"
    /\ UNCHANGED <<cfg, req, w, ctxs, relay, ret, now, logs>>

----------------------------------------------------------------------------
(* Reading and parsing a provider response *)

ContentEncoding(hdr) ==
    IF "Content-Encoding" \in DOMAIN hdr THEN hdr["Content-Encoding"] ELSE ""

\* readResponse(resp): a decoder chosen by Content-Encoding, else the bytes as
\* they are; a decoder fed bytes of another coding fails
readResponse(hdr, body) ==
    IF ContentEncoding(hdr) = "gzip"
    THEN IF body.coding = "gzip"
         THEN [ok |-> TRUE, body |-> [body EXCEPT !.coding = "identity"]]
         ELSE [ok |-> FALSE, body |-> body]
    ELSE [ok |-> TRUE, body |-> body]

\* json.Unmarshal into the provider's response struct: compressed or non-JSON
\* bytes fail; a JSON object without the expected fields gives zero values
Unmarshal(body) ==
    IF body.coding # "identity" \/ body.t \notin {"completion", "error"}
    THEN [ok |-> FALSE, id |-> <<"", 0>>, created |-> 0, model |-> "", content |-> ""]
    ELSE IF body.t = "completion"
    THEN [ok |-> TRUE, id |-> ProviderResponseId, created |-> 0, model |-> ProviderModelId,
          content |-> "hi"]
    ELSE [ok |-> TRUE, id |-> <<"", 0>>, created |-> 0, model |-> "", content |-> ""]

\* util.GenerateResponseID and "chatcmpl-" + time.Now().Format("20060102150405")
GenerateResponseID(t) == <<"chatcmpl", t>>

\* the OpenAI-shaped completion a handler writes
Completion(id, created, model, content) ==
    [t |-> "openai", id |-> id, created |-> created, model |-> model, content |-> content]

\* the backend is about to return: deferred resp.Body.Close() and cancel()
CloseBody(pr) == [pr EXCEPT !.open = FALSE]

\* forwarding of an upstream error by openrouterBackend and deepseekBackend:
\* every upstream header is copied, then status and body
ForwardError(ww) ==
    Write(WriteHeader(HeaderSet([ww EXCEPT !.hdr = mapsCopy(@, up.hdr)],
                                "Content-Type", "application/json"),
                      up.status),
          up.body)

\* handleRegularResponse of the openrouter package
openrouterHandleRegularResponse(ww, originalModel) ==
    LET rd == readResponse(up.hdr, up.body)
        parsed == Unmarshal(rd.body)
    IN IF ~rd.ok THEN HttpError(ww, "Error reading response from upstream", 500)
       ELSE IF ~parsed.ok THEN WriteHeader(ww, 500)
       ELSE Write(WriteHeader(HeaderSet(ww, "Content-Type", "application/json"), up.status),
                  Completion(parsed.id, parsed.created, originalModel, parsed.content))

\* handleRegularResponse of the deepseek package
deepseekHandleRegularResponse(ww, originalModel) ==
    LET rd == readResponse(up.hdr, up.body)
        parsed == Unmarshal(rd.body)
    IN IF ~rd.ok THEN HttpError(ww, "Error reading response from upstream", 500)
       ELSE IF ~parsed.ok THEN WriteHeader(ww, 500)
       ELSE Write(WriteHeader(HeaderSet(ww, "Content-Type", "application/json"), up.status),
                  Completion(parsed.id, parsed.created, originalModel, parsed.content))

\* handleRegularResponse of ollamaBackend: the raw bytes are parsed
ollamaHandleRegularResponse(ww, originalModel) ==
    LET parsed == Unmarshal(up.body)
    IN IF ~parsed.ok THEN HttpError(ww, "error unmarshaling response: body", 500)
       ELSE Write(HeaderSet(ww, "Content-Type", "application/json"),
                  Completion(GenerateResponseID(now), now, originalModel, parsed.content))

\* util.WriteJSON(w, status, v)
WriteJSON(ww, status, v) ==
    Write(WriteHeader(HeaderSet(ww, "Content-Type", "application/json"), status), v)

\* Backend.handleRegularResponse of the ollama package: a decode failure is
\* returned to the caller, nothing is written
ollamaAHandleRegularResponse(ww, model) ==
    LET parsed == Unmarshal(up.body)
    IN IF ~parsed.ok THEN ww
       ELSE WriteJSON(ww, 200, Completion(GenerateResponseID(now), now, model, parsed.content))

\* the three headers every streaming relay sets first
StreamHeaders(ww) ==
    HeaderSet(HeaderSet(HeaderSet(ww, "Content-Type", "text/event-stream"),
                        "Cache-Control", "no-cache"), "Connection", "keep-alive")

OpenRelay(c, hb) == [state |-> "open", ctx |-> c, pos |-> 0, buf |-> <<>>,
                     hb |-> hb, beats |-> 0]

\* openrouterBackend.HandleChatCompletion after client.Do returned a response
openrouterResponse ==
    /\ pc = "response" /\ cfg.b.name = "openrouter"
    /\ IF up.status >= 400
       THEN /\ IF Aborted
               THEN w' = HttpError(w, "Error reading response", 500)
               ELSE w' = ForwardError(w)
            /\ logs' = Log("openrouter", <<"OpenRouter error response">>)
            /\ pc' = AfterHandler
            /\ prov' = CloseBody(prov)
            /\ UNCHANGED <<ctxs, relay>>
       ELSE IF req.stream
       THEN /\ w' = WriteHeader(StreamHeaders(w), up.status)
            /\ ctxs' = WithChild(ctxs, "stream", prov.ctx, FALSE)
            /\ relay' = OpenRelay("stream", "none")
            /\ logs' = Log("openrouter", <<"Starting streaming response handling">>)
            /\ pc' = "relay"
            /\ prov' = prov
       ELSE /\ w' = IF Aborted
                    THEN HttpError(w, "Error reading response from upstream", 500)
                    ELSE openrouterHandleRegularResponse(w, prov.orig)
            /\ logs' = Log("openrouter", <<"Handling regular (non-streaming) response">>)
            /\ pc' = AfterHandler
            /\ prov' = CloseBody(prov)
            /\ ctxs' = Cancel(ctxs, "call")
            /\ relay' = relay
    /\ UNCHANGED <<cfg, req, up, ret, now>>

\* deepseekBackend.HandleChatCompletions after client.Do returned a response
deepseekResponse ==
    /\ pc = "response" /\ cfg.b.name = "deepseek"
    /\ IF up.status >= 400
       THEN /\ IF Aborted
               THEN w' = HttpError(w, "Error reading response", 500)
               ELSE w' = ForwardError(w)
            /\ logs' = Log("deepseek", <<"DeepSeek error response">>)
            /\ pc' = AfterHandler
            /\ prov' = CloseBody(prov)
            /\ UNCHANGED <<ctxs, relay>>
       ELSE IF req.stream
       THEN /\ w' = WriteHeader(StreamHeaders(w), up.status)
            /\ ctxs' = WithChild(ctxs, "stream", req.ctx, FALSE)
            /\ relay' = OpenRelay("stream", "running")
            /\ logs' = Log("deepseek", <<"Starting streaming response handling">>)
            /\ pc' = "relay"
            /\ prov' = prov
       ELSE /\ w' = IF Aborted
                    THEN HttpError(w, "Error reading response from upstream", 500)
                    ELSE deepseekHandleRegularResponse(w, prov.orig)
            /\ logs' = Log("deepseek", <<"Handling regular (non-streaming) response">>)
            /\ pc' = AfterHandler
            /\ prov' = CloseBody(prov)
            /\ UNCHANGED <<ctxs, relay>>
    /\ UNCHANGED <<cfg, req, up, ret, now>>

\* ollamaBackend.HandleChatCompletion after http.Post returned a response:
\* the status is not looked at
ollamaResponse ==
    /\ pc = "response" /\ cfg.b.name = "ollama"
    /\ IF req.stream
       THEN IF ~IsFlusher(w)
            THEN /\ w' = HttpError(StreamHeaders(w), "Streaming unsupported", 500)
                 /\ logs' = Log("ollama", <<"streaming unsupported">>)
                 /\ pc' = AfterHandler
                 /\ prov' = CloseBody(prov)
                 /\ relay' = relay
            ELSE /\ w' = StreamHeaders(w)
                 /\ relay' = OpenRelay("none", "none")
                 /\ logs' = logs
                 /\ pc' = "relay"
                 /\ prov' = prov
       ELSE /\ w' = ollamaHandleRegularResponse(w, prov.orig)
            /\ logs' = Log("ollama", <<"openAIResp">>)
            /\ pc' = AfterHandler
            /\ prov' = CloseBody(prov)
            /\ relay' = relay
    /\ UNCHANGED <<cfg, req, ctxs, up, ret, now>>

\* ollama.Backend.HandleChatCompletion after b.client.Do returned a response
ollamaAResponse ==
    /\ pc = "response" /\ cfg.b.name = "ollamaA"
    /\ IF up.status >= 400
       THEN /\ ret' = "err"
            /\ w' = w
            /\ logs' = Log("ollamaA", <<"Ollama API error">>)
            /\ pc' = Returned
            /\ prov' = CloseBody(prov)
            /\ UNCHANGED <<ctxs, relay>>
       ELSE IF req.stream
       THEN /\ w' = StreamHeaders(w)
            /\ ctxs' = WithChild(ctxs, "stream", req.ctx, TRUE)
            /\ relay' = OpenRelay("stream", "none")
            /\ pc' = "relay"
            /\ UNCHANGED <<ret, logs, prov>>
       ELSE /\ LET parsed == Unmarshal(up.body) IN
               IF Aborted \/ ~parsed.ok
               THEN /\ ret' = "err"
                    /\ w' = w
                    /\ logs' = Log("ollamaA", <<"Error reading response">>)
               ELSE /\ ret' = "nil"
                    /\ w' = ollamaAHandleRegularResponse(w, prov.orig)
                    /\ logs' = logs
            /\ pc' = Returned
            /\ prov' = CloseBody(prov)
            /\ UNCHANGED <<ctxs, relay>>
    /\ UNCHANGED <<cfg, req, up, now>>

----------------------------------------------------------------------------
(* The upstream stream *)

\* lines a provider may send on an open stream: a chunk (done or not), a
\* blank line, bytes that are not JSON; the last line may lack its newline
\* (a chunk names the provider's own model and response id)
StreamLines(n) ==
    {[k |-> "data", done |-> d, nl |-> e, n |-> n,
      model |-> ProviderModelId, id |-> ProviderResponseId] : d \in BOOLEAN, e \in BOOLEAN}
    \cup {[k |-> "blank", done |-> FALSE, nl |-> TRUE, n |-> n, model |-> "", id |-> <<"", 0>>]}
    \cup {[k |-> "garbage", done |-> FALSE, nl |-> TRUE, n |-> n, model |-> "", id |-> <<"", 0>>]}

UpstreamOpen == prov.open /\ up.status < 400 /\ req.stream /\ ~up.eof /\ ~up.failed

\* the provider sends one more line (a line without newline ends the stream);
\* at most one line waits unread
UpstreamSend ==
    /\ pc = "relay" /\ UpstreamOpen
    /\ Len(up.lines) < MaxChunks
    /\ relay.pos = Len(up.lines)
    /\ \E l \in StreamLines(Len(up.lines) + 1) :
        up' = [up EXCEPT !.lines = Append(@, l), !.eof = ~l.nl]
    /\ UNCHANGED <<cfg, req, pc, w, ctxs, prov, relay, ret, now, logs>>

\* the provider ends the stream
UpstreamEOF ==
    /\ pc = "relay" /\ UpstreamOpen
    /\ up' = [up EXCEPT !.eof = TRUE]
    /\ UNCHANGED <<cfg, req, pc, w, ctxs, prov, relay, ret, now, logs>>

\* the upstream connection breaks
UpstreamFail ==
    /\ pc = "relay" /\ UpstreamOpen
    /\ up' = [up EXCEPT !.failed = TRUE]
    /\ UNCHANGED <<cfg, req, pc, w, ctxs, prov, relay, ret, now, logs>>

\* wall-clock seconds pass; only the Ollama handlers read the clock
Tick ==
    /\ cfg.b.name \in {"ollama", "ollamaA"}
    /\ pc \in {"response", "relay"}
    /\ now < MaxTime
    /\ now' = now + 1
    /\ UNCHANGED <<cfg, req, pc, w, ctxs, prov, up, relay, ret, logs>>

\* reader.ReadBytes('\n') on the response body
LineAvail == relay.pos < Len(up.lines)
NextLine == up.lines[relay.pos + 1]
AtEOF == relay.pos = Len(up.lines) /\ up.eof
ReadFails == relay.pos = Len(up.lines) /\ ~up.eof /\ (up.failed \/ Aborted)

\* a Write towards a client that has gone fails
WriteFails == "conn" \in ctxs.cancelled

FlushIf(ww) == IF IsFlusher(ww) THEN Flush(ww) ELSE ww

\* json.Unmarshal(line, &chunk): blank and non-JSON lines fail
LineParses(l) == l.k \in {"data", "error"}

----------------------------------------------------------------------------
(* Streaming relays *)

\* the chunk ollamaBackend's relay writes for one upstream line
OllamaEvent(l, originalModel) ==
    [t |-> "event", id |-> GenerateResponseID(now), model |-> originalModel,
     n |-> l.n, finish |-> IF l.done THEN "stop" ELSE ""]

\* handleStreamingResponse of ollamaBackend: one turn of its read loop
ollamaRelayStep ==
    /\ pc = "relay" /\ cfg.b.name = "ollama" /\ relay.state = "open"
    /\ LineAvail \/ AtEOF \/ ReadFails
    /\ \E marshalOK \in BOOLEAN :
       IF LineAvail /\ NextLine.nl
       THEN IF ~LineParses(NextLine)
            THEN /\ logs' = Log("ollama", <<"error unmarshaling response">>)
                 /\ relay' = [relay EXCEPT !.pos = @ + 1]
                 /\ UNCHANGED <<w, pc, prov>>
            ELSE IF ~marshalOK
            THEN /\ w' = HttpError(w, "error marshaling OpenAI response: cause", 500)
                 /\ logs' = Log("ollama", <<"error marshaling OpenAI response">>)
                 /\ relay' = [relay EXCEPT !.pos = @ + 1, !.state = "closed"]
                 /\ pc' = AfterHandler
                 /\ prov' = CloseBody(prov)
            ELSE /\ w' = Flush(Write(w, OllamaEvent(NextLine, prov.orig)))
                 /\ logs' = logs
                 /\ IF NextLine.done
                    THEN /\ relay' = [relay EXCEPT !.pos = @ + 1, !.state = "closed"]
                         /\ pc' = AfterHandler
                         /\ prov' = CloseBody(prov)
                    ELSE /\ relay' = [relay EXCEPT !.pos = @ + 1]
                         /\ UNCHANGED <<pc, prov>>
       ELSE /\ relay' = [relay EXCEPT !.state = "closed",
                                      !.pos = IF LineAvail THEN @ + 1 ELSE @]
            /\ logs' = IF ReadFails THEN Log("ollama", <<"error reading stream">>) ELSE logs
            /\ pc' = AfterHandler
            /\ prov' = CloseBody(prov)
            /\ w' = w
    /\ UNCHANGED <<cfg, req, ctxs, up, ret, now>>

\* Backend.handleStreamingResponse of the ollama package (error-returning
\* contract): one turn of the reader goroutine; the caller waits on errCh
ollamaARelayStep ==
    /\ pc = "relay" /\ cfg.b.name = "ollamaA" /\ relay.state = "open"
    /\ Done(ctxs, relay.ctx) \/ LineAvail \/ AtEOF \/ ReadFails
    /\ IF Done(ctxs, relay.ctx)
       THEN /\ ret' = "err"
            /\ relay' = [relay EXCEPT !.state = "closed"]
            /\ logs' = Log("ollamaA", <<"Stream timeout or cancelled">>)
            /\ pc' = Returned
            /\ prov' = CloseBody(prov)
            /\ w' = w
       ELSE IF LineAvail /\ NextLine.nl
       THEN IF NextLine.k = "blank"
            THEN /\ relay' = [relay EXCEPT !.pos = @ + 1]
                 /\ UNCHANGED <<w, pc, prov, ret, logs>>
            ELSE IF ~LineParses(NextLine)
            THEN /\ ret' = "err"
                 /\ relay' = [relay EXCEPT !.pos = @ + 1, !.state = "closed"]
                 /\ logs' = Log("ollamaA", <<"Error parsing response">>)
                 /\ pc' = Returned
                 /\ prov' = CloseBody(prov)
                 /\ w' = w
            ELSE IF NextLine.done
            THEN /\ w' = FlushIf(WriteJSON(w, 200,
                            [t |-> "json", id |-> GenerateResponseID(now),
                             model |-> prov.orig, n |-> NextLine.n, finish |-> "stop"]))
                 /\ ret' = "nil"
                 /\ relay' = [relay EXCEPT !.pos = @ + 1, !.state = "closed"]
                 /\ pc' = Returned
                 /\ prov' = CloseBody(prov)
                 /\ logs' = logs
            ELSE /\ relay' = [relay EXCEPT !.pos = @ + 1]
                 /\ UNCHANGED <<w, pc, prov, ret, logs>>
       ELSE /\ ret' = IF ReadFails THEN "err" ELSE "nil"
            /\ relay' = [relay EXCEPT !.state = "closed",
                                      !.pos = IF LineAvail THEN @ + 1 ELSE @]
            /\ logs' = Log("ollamaA", IF ReadFails THEN <<"Error reading stream">>
                                      ELSE <<"Stream completed">>)
            /\ pc' = Returned
            /\ prov' = CloseBody(prov)
            /\ w' = w
    /\ ctxs' = IF relay'.state = "closed" THEN Cancel(ctxs, "stream") ELSE ctxs
    /\ UNCHANGED <<cfg, req, up, now>>

\* bytes.HasSuffix(buffer.Bytes(), "\n\n") after line l was appended to buf
EndsEvent(buf, l) == l.k = "blank" /\ Len(buf) >= 1

\* len(bytes.TrimSpace(message)) == 0
AllBlank(msg) == \A i \in 1..Len(msg) : msg[i].k = "blank"

\* handleStreamingResponse of the openrouter package: one read of the reader
\* goroutine; the handler waits for it on errChan (or for its context)
openrouterRelayStep ==
    /\ pc = "relay" /\ cfg.b.name = "openrouter" /\ relay.state = "open"
    /\ Done(ctxs, relay.ctx) \/ LineAvail \/ AtEOF \/ ReadFails
    /\ IF ~Done(ctxs, relay.ctx) /\ LineAvail /\ NextLine.nl
       THEN LET msg == Append(relay.buf, NextLine) IN
            IF ~EndsEvent(relay.buf, NextLine)
            THEN /\ relay' = [relay EXCEPT !.pos = @ + 1, !.buf = msg]
                 /\ UNCHANGED <<w, pc, prov, logs, ctxs>>
            ELSE IF AllBlank(msg)
            THEN /\ relay' = [relay EXCEPT !.pos = @ + 1, !.buf = <<>>]
                 /\ UNCHANGED <<w, pc, prov, logs, ctxs>>
            ELSE IF WriteFails
            THEN /\ relay' = [relay EXCEPT !.pos = @ + 1, !.buf = <<>>, !.state = "closed"]
                 /\ logs' = Log("openrouter", <<"error writing to downstream client stream">>)
                 /\ pc' = AfterHandler
                 /\ prov' = CloseBody(prov)
                 /\ ctxs' = Cancel(ctxs, "stream")
                 /\ w' = w
            ELSE /\ w' = FlushIf(Write(w, [t |-> "raw", lines |-> msg]))
                 /\ relay' = [relay EXCEPT !.pos = @ + 1, !.buf = <<>>]
                 /\ UNCHANGED <<pc, prov, logs, ctxs>>
       ELSE /\ relay' = [relay EXCEPT !.state = "closed",
                                      !.pos = IF LineAvail THEN @ + 1 ELSE @]
            /\ logs' = Log("openrouter", <<"streaming response handler completed">>)
            /\ pc' = AfterHandler
            /\ prov' = CloseBody(prov)
            /\ ctxs' = Cancel(ctxs, "stream")
            /\ w' = w
    /\ UNCHANGED <<cfg, req, up, ret, now>>

\* handleStreamingResponse of the deepseek package: one turn of the read
\* loop (a turn at EOF changes nothing: the loop continues)
deepseekRelayStep ==
    /\ pc = "relay" /\ cfg.b.name = "deepseek" /\ relay.state = "open"
    /\ Done(ctxs, relay.ctx) \/ LineAvail \/ ReadFails
    /\ IF ~Done(ctxs, relay.ctx) /\ LineAvail
       THEN IF ~NextLine.nl \/ NextLine.k = "blank"
            THEN /\ relay' = [relay EXCEPT !.pos = @ + 1]
                 /\ UNCHANGED <<w, pc, prov, logs, ctxs>>
            ELSE IF WriteFails
            THEN /\ relay' = [relay EXCEPT !.pos = @ + 1, !.state = "closed"]
                 /\ logs' = Log("deepseek", <<"Error writing to response">>)
                 /\ pc' = AfterHandler
                 /\ prov' = CloseBody(prov)
                 /\ ctxs' = Cancel(ctxs, "stream")
                 /\ w' = w
            ELSE /\ w' = FlushIf(Write(w, [t |-> "raw", lines |-> <<NextLine>>]))
                 /\ relay' = [relay EXCEPT !.pos = @ + 1]
                 /\ logs' = IF IsFlusher(w) THEN logs
                            ELSE Log("deepseek", <<"ResponseWriter does not support Flush">>)
                 /\ UNCHANGED <<pc, prov, ctxs>>
       ELSE /\ relay' = [relay EXCEPT !.state = "closed"]
            /\ logs' = Log("deepseek", IF Done(ctxs, relay.ctx)
                                       THEN <<"Context cancelled, ending stream">>
                                       ELSE <<"Error reading stream">>)
            /\ pc' = AfterHandler
            /\ prov' = CloseBody(prov)
            /\ ctxs' = Cancel(ctxs, "stream")
            /\ w' = w
    /\ UNCHANGED <<cfg, req, up, ret, now>>

MaxBeats == 1           \* heartbeat ticks per stream

\* the heartbeat goroutine of the deepseek relay: the ticker fires
heartbeatTick ==
    /\ relay.hb = "running"
    /\ relay.beats < MaxBeats
    /\ IF WriteFails
       THEN /\ relay' = [relay EXCEPT !.hb = "stopped", !.beats = @ + 1]
            /\ ctxs' = Cancel(ctxs, "stream")
            /\ logs' = Log("deepseek", <<"Error sending heartbeat">>)
            /\ w' = w
       ELSE /\ relay' = [relay EXCEPT !.beats = @ + 1]
            /\ w' = FlushIf(Write(w, [t |-> "heartbeat"]))
            /\ UNCHANGED <<ctxs, logs>>
    /\ UNCHANGED <<cfg, req, pc, prov, up, ret, now>>

\* the heartbeat goroutine sees its context done
heartbeatStop ==
    /\ relay.hb = "running"
    /\ Done(ctxs, relay.ctx)
    /\ relay' = [relay EXCEPT !.hb = "stopped"]
    /\ UNCHANGED <<cfg, req, pc, w, ctxs, prov, up, ret, now, logs>>

----------------------------------------------------------------------------

Next ==
    \/ Arrive
    \/ withContext \/ withLogging \/ withCors \/ withApiKeyAuth \/ mux
    \/ handleChatCompletions \/ handleModels \/ withLoggingReturn \/ finishRequest
    \/ LoggingMiddleware \/ notFoundA \/ handleChatCompletionsA
    \/ handleChatCompletionsReturn \/ handleModelsA
    \/ proxyHandler
    \/ openrouterHandleChatCompletion \/ ollamaHandleChatCompletion
    \/ ollamaAHandleChatCompletion \/ deepseekHandleChatCompletions
    \/ ClientDisconnect \/ DeadlineExceeded \/ ClientTimeout
    \/ CallFails \/ ProviderRespond
    \/ openrouterResponse \/ deepseekResponse \/ ollamaResponse \/ ollamaAResponse
    \/ UpstreamSend \/ UpstreamEOF \/ UpstreamFail \/ Tick
    \/ ollamaRelayStep \/ ollamaARelayStep \/ openrouterRelayStep \/ deepseekRelayStep
    \/ heartbeatTick \/ heartbeatStop

Spec == Init /\ [][Next]_vars

----------------------------------------------------------------------------
(* ValidateAPIKey as a function of the backend and the candidate *)

\* candidates a caller may present: token strings of length up to 2
Tokens == {"s1", "bad", Bearer}
Candidates == {<<>>} \cup {<<a>> : a \in Tokens} \cup {<<a, b>> : a \in Tokens, b \in Tokens}

InitValidate ==
    /\ cfg \in {c \in Configs : c.b.name # "deepseek"}
    /\ \E c \in Candidates : req = [NoReq EXCEPT !.auth = c]
    /\ pc = "ValidateAPIKey"
    /\ w = NewWriter
    /\ ctxs = RootCtxs
    /\ prov = NoProv
    /\ up = NoUp
    /\ relay = NoRelay
    /\ ret = "none"
    /\ now = 0
    /\ logs = {}

\* b.ValidateAPIKey(candidate)
ApplyValidateAPIKey ==
    /\ pc = "ValidateAPIKey"
    /\ ret' = IF ValidateAPIKey(cfg.b, req.auth) THEN "true" ELSE "false"
    /\ pc' = "validated"
    /\ UNCHANGED <<cfg, req, w, ctxs, prov, up, relay, now, logs>>

SpecValidate == InitValidate /\ [][ApplyValidateAPIKey]_vars

----------------------------------------------------------------------------
(* Properties *)

\* HandleChatCompletion of a backend that writes its own errors has run
BackendEntered == "be" \in DOMAIN ctxs.parent

HandlerReturned == pc \in {"logReturn", "finish", "done"}

\* C1: when openrouterBackend.HandleChatCompletion has returned, whatever the
\* outcome of the provider call, exactly one response is committed on the
\* writer (a status, no second WriteHeader), and a response with an error
\* status carries an error body, never a bare status.
C1_EveryFailureWritesAnErrorBody ==
    (cfg.b.name = "openrouter" /\ BackendEntered /\ HandlerReturned)
        => /\ w.status # 0
           /\ w.extra = 0
           /\ (w.status >= 400 => Len(w.body) > 0)

\* the model the provider should be asked for when m was requested
ExpectedProviderModel(m) ==
    IF cfg.b.name = "ollama" /\ m \in MappedNames THEN Models[m] ELSE DefaultModel

\* C2: for a unary request to an Ollama backend that requested model m, the
\* provider was asked for the mapped model (or the default when m has no
\* mapping) and the completion returned to the caller carries model = m.
C2_UnaryModelNameIsTransparent ==
    (cfg.b.name \in {"ollama", "ollamaA"} /\ pc = "done" /\ ~req.stream
     /\ Len(w.body) = 1 /\ w.body[1].t = "openai")
        => /\ prov.model = ExpectedProviderModel(req.model)
           /\ w.body[1].model = req.model

\* the chunks of a response body that are stream events
IsEvent(c) ==
    \/ c.t \in {"event", "json"}
    \/ c.t = "raw" /\ \E i \in 1..Len(c.lines) : c.lines[i].k = "data"

DataLineOf(c) == CHOOSE l \in {c.lines[i] : i \in 1..Len(c.lines)} : l.k = "data"

EventModel(c) == IF c.t = "raw" THEN DataLineOf(c).model ELSE c.model

EventId(c) == IF c.t = "raw" THEN DataLineOf(c).id ELSE c.id

Events == {i \in 1..Len(w.body) : IsEvent(w.body[i])}

\* C3: every event a streaming relay has written carries the model name the
\* caller requested, and all events of the stream carry one response id.
C3_StreamEventsCarryRequestedModelAndOneId ==
    (req.stream /\ relay.state # "none")
        => /\ \A i \in Events : EventModel(w.body[i]) = req.model
           /\ \A i, j \in Events : EventId(w.body[i]) = EventId(w.body[j])

\* the chunks of an upstream line sequence, up to and including the first
\* one with done:true
RECURSIVE ChunksUpToDone(_)
ChunksUpToDone(ls) ==
    IF ls = <<>> THEN <<>>
    ELSE IF Head(ls).k # "data" THEN ChunksUpToDone(Tail(ls))
    ELSE IF Head(ls).done THEN <<Head(ls)>>
    ELSE <<Head(ls)>> \o ChunksUpToDone(Tail(ls))

EventSeq == SelectSeq(w.body, IsEvent)

\* C4: when an Ollama relay has closed after reading its upstream to EOF or
\* to a done chunk, it has written exactly one event per upstream chunk up
\* to and including the first done chunk, in order, and an event carries
\* finish_reason "stop" exactly when its chunk was done.
C4_OllamaOneEventPerChunkUntilDone ==
    (cfg.b.name \in {"ollama", "ollamaA"} /\ relay.state = "closed" /\ up.status < 400
     /\ relay.pos = Len(up.lines) /\ ~up.failed /\ ~Done(ctxs, relay.ctx) /\ ~prov.abort)
        => LET exp == ChunksUpToDone(up.lines) IN
           /\ Len(EventSeq) = Len(exp)
           /\ \A i \in 1..Len(exp) :
                /\ i <= Len(EventSeq)
                /\ EventSeq[i].n = exp[i].n
                /\ (EventSeq[i].finish = "stop") = exp[i].done

\* C5: when the provider answered with a status >= 400 (and its body could be
\* read), the caller got that status and exactly the provider's body.
C5_UpstreamErrorForwardedVerbatim ==
    (pc = "done" /\ up.status >= 400
     /\ w.body # <<[t |-> "text", msg |-> "Error reading response"]>>)
        => /\ w.status = up.status
           /\ w.body = <<up.body>>

\* C6: when an upstream error was forwarded with its status, the headers sent
\* to the caller contain none of Content-Length, Content-Encoding,
\* Transfer-Encoding, Connection.
C6_ForwardedErrorHasNoTransportHeaders ==
    (pc = "done" /\ up.status >= 400 /\ w.status = up.status)
        => DOMAIN w.sent \cap skipHeaders = {}

PastAuth == {"mux", "handleChatCompletions", "handleModels", "backend",
             "calling", "response", "relay"}

\* C7: behind middleware.Wrap with a configured key, a request is past the
\* auth middleware only if its Authorization header is "Bearer " followed by
\* the key; a request without credential ends with 401, one with another
\* credential with 403, and neither reaches the provider.
C7_OnlyExactBearerKeyPasses ==
    (ServerOf(cfg.b.name) = "wrap" /\ cfg.entry = "server" /\ cfg.apikey # NoSecret)
        => /\ pc \in PastAuth => req.auth = <<Bearer>> \o cfg.apikey
           /\ (pc = "done" /\ req.method # "OPTIONS" /\ req.auth \in {<<>>, <<Bearer>>})
                => (w.status = 401 /\ prov.calls = 0)
           /\ (pc = "done" /\ req.method # "OPTIONS" /\ req.auth = <<Bearer, "bad">>)
                => (w.status = 403 /\ prov.calls = 0)

\* C8: ValidateAPIKey(c) is true exactly when c is the secret the backend was
\* constructed with, and for a backend constructed with no secret it is true
\* for every c.
C8_ValidateAPIKeyPolicy ==
    pc = "validated"
        => (ret = "true") = (IF cfg.apikey = NoSecret THEN TRUE ELSE req.auth = cfg.apikey)

\* C9: whenever the inbound request's context is cancelled while the provider
\* call is in flight or its body is open, the outbound call is cancelled too
\* (its context is done), so that it cannot outlive the client.
C9_CancellationReachesProviderCall ==
    ((pc = "calling" \/ prov.open) /\ Done(ctxs, "conn"))
        => Done(ctxs, prov.ctx)

\* a timeout bounds the outbound exchange
CallBounded == prov.ctimeout \/ HasDeadline(ctxs, prov.ctx)

\* C10: the provider call of a stream:false request is bounded by a timeout,
\* and no timeout applies to a stream:true request: none on the outbound call,
\* none on the relay's context, none on the request's own context.
C10_TimeoutOnlyForUnary ==
    (pc \in {"calling", "response", "relay"})
        => /\ ~req.stream => CallBounded
           /\ req.stream => /\ ~CallBounded
                            /\ ~HasDeadline(ctxs, relay.ctx)
                            /\ ~HasDeadline(ctxs, req.ctx)

\* the proxy itself answered 400, 401 or 403 (a text message of its own, not
\* a provider body)
Rejected ==
    /\ w.status \in {400, 401, 403}
    /\ Len(w.body) >= 1
    /\ w.body[1].t = "text"

\* C11: a client request makes at most one HTTP call to the provider on every
\* path, and none when it is rejected with 400, 401 or 403 (malformed JSON,
\* missing credential, invalid credential).
C11_AtMostOneProviderCall ==
    /\ prov.calls <= 1
    /\ Rejected => prov.calls = 0

\* a stream broke after the one provider call and the exchange is over
C11_Witness ==
    /\ pc = "done"
    /\ prov.calls = 1
    /\ up.failed

\* the one provider call failed before any response arrived
TransportFailed == prov.calls = 1 /\ up.status = 0 /\ pc = "done"

\* the fixed messages a backend may answer a transport failure with
GenericMessages == {"Error forwarding request"}

\* C12: when the provider call fails at the transport level, the caller gets
\* status 502 and a fixed generic message without the underlying error text,
\* whatever the backend.
C12_TransportFailureIs502Generic ==
    TransportFailed
        => /\ w.status = 502
           /\ Len(w.body) = 1
           /\ w.body[1].t = "text"
           /\ w.body[1].msg \in GenericMessages

\* position of the first stream event in the response body (0 when none)
FirstEvent == IF Events = {} THEN 0 ELSE CHOOSE i \in Events : \A j \in Events : i <= j

----------------------------------------------------------------------------
(* A unary response handler run twice on the same upstream response *)

\* handleRegularResponse of the configured backend, on a fresh writer
UnaryHandler(ww, originalModel) ==
    CASE cfg.b.name = "openrouter" -> openrouterHandleRegularResponse(ww, originalModel)
      [] cfg.b.name = "deepseek" -> deepseekHandleRegularResponse(ww, originalModel)
      [] cfg.b.name = "ollama" -> ollamaHandleRegularResponse(ww, originalModel)
      [] OTHER -> ollamaAHandleRegularResponse(ww, originalModel)

InitTwice ==
    /\ cfg \in {c \in Configs : c.entry = "direct"}
    /\ \E mo \in RequestedNames :
        /\ req = [method |-> "POST", path |-> ChatPath, auth |-> <<>>, model |-> mo,
                  stream |-> FALSE, bodyOK |-> TRUE, ctx |-> "conn"]
        /\ prov = [NoProv EXCEPT !.calls = 1, !.orig = mo, !.open = TRUE]
    /\ \E names \in SUBSET {"Content-Encoding"}, b \in UpBodies :
        up = [NoUp EXCEPT !.status = 200, !.hdr = UpHeaders(names), !.body = b]
    /\ pc = "firstRun"
    /\ w = NewWriter
    /\ ctxs = RootCtxs
    /\ relay = NoRelay
    /\ ret = NewWriter
    /\ now = 0
    /\ logs = {}

\* the handler runs on the upstream response
RunFirst ==
    /\ pc = "firstRun"
    /\ w' = UnaryHandler(NewWriter, req.model)
    /\ pc' = "between"
    /\ UNCHANGED <<cfg, req, ctxs, prov, up, relay, ret, now, logs>>

\* wall-clock time passes between the two runs
ClockAdvance ==
    /\ pc = "between"
    /\ now < MaxTime
    /\ now' = now + 1
    /\ UNCHANGED <<cfg, req, pc, w, ctxs, prov, up, relay, ret, logs>>

\* the handler runs again on the same upstream response; ret keeps what the
\* first run wrote
RunSecond ==
    /\ pc = "between"
    /\ ret' = w
    /\ w' = UnaryHandler(NewWriter, req.model)
    /\ pc' = "twice"
    /\ UNCHANGED <<cfg, req, ctxs, prov, up, relay, now, logs>>

NextTwice == RunFirst \/ ClockAdvance \/ RunSecond

SpecTwice == InitTwice /\ [][NextTwice]_vars

\* a response body with the response ids blanked
RECURSIVE WithoutIds(_)
WithoutIds(body) ==
    IF body = <<>> THEN <<>>
    ELSE <<IF Head(body).t = "openai" THEN [Head(body) EXCEPT !.id = <<"", 0>>]
           ELSE Head(body)>> \o WithoutIds(Tail(body))

\* C14: two runs of a backend's unary response handler on the same upstream
\* response and the same requested model write the same status and the same
\* body, whatever the time of each run, the response id set aside.
C14_UnaryHandlerIdempotent ==
    pc = "twice"
        => /\ w.status = ret.status
           /\ WithoutIds(w.body) = WithoutIds(ret.body)

----------------------------------------------------------------------------
(* The request and response converters, applied to bounded inputs *)

MaxParts == 2           \* content parts of a message
MaxCalls == 2           \* tool calls of a message

\* tool_choice values as json.Unmarshal hands them over in an interface{}:
\* nil, a string, a map (with its "type" and the function it names), or
\* another shape (a number, a list)
ToolChoices ==
    {[kind |-> "nil", str |-> "", type |-> "", name |-> ""]}
    \cup {[kind |-> "string", str |-> s, type |-> "", name |-> ""] :
            s \in {"auto", "none", "required", "foo"}}
    \cup {[kind |-> "map", str |-> "", type |-> ty, name |-> n] :
            ty \in {"function", "other", ""}, n \in {"foo", ""}}
    \cup {[kind |-> "other", str |-> "", type |-> "", name |-> ""]}

\* a converter that hands a forced function through to the provider
convertToolChoiceTargeted(choice) ==
    IF choice.kind = "nil" THEN ""
    ELSE IF choice.kind = "string" /\ choice.str \in {"auto", "none"} THEN choice.str
    ELSE IF choice.kind = "map" /\ choice.type = "function" THEN choice.name
    ELSE ""

\* convertToolChoice(choice)
convertToolChoice(choice) ==
    IF choice.kind = "nil" THEN ""
    ELSE IF choice.kind = "string" /\ choice.str \in {"auto", "none"} THEN choice.str
    ELSE IF choice.kind = "map" /\ choice.type = "function" THEN "auto"
    ELSE ""

InitConvert ==
    /\ cfg \in {c \in Configs : c.entry = "direct" /\ c.b.name # "ollamaA"}
    /\ req = NoReq
    /\ pc = "input"
    /\ w = NewWriter
    /\ ctxs = RootCtxs
    /\ prov = NoProv
    /\ up = NoUp
    /\ relay = NoRelay
    /\ ret = "none"
    /\ now = 0
    /\ logs = {}

\* convertToolChoice applied to the tool_choice of a request; req keeps the
\* input, ret the output
ApplyConvertToolChoice ==
    /\ pc = "input" /\ cfg.b.name \in {"openrouter", "deepseek"}
    /\ \E choice \in ToolChoices :
        /\ req' = choice
        /\ ret' = convertToolChoice(choice)
    /\ pc' = "convertToolChoice"
    /\ UNCHANGED <<cfg, w, ctxs, prov, up, relay, now, logs>>

\* C15: convertToolChoice returns "auto", "none" or the empty value only:
\* the strings "auto" and "none" unchanged, "auto" for every structured
\* function choice, the empty value for nil and every other shape.
C15_ToolChoiceCollapses ==
    pc = "convertToolChoice"
        => /\ ret \in {"auto", "none", ""}
           /\ (req.kind = "string" /\ req.str \in {"auto", "none"}) => ret = req.str
           /\ (req.kind = "map" /\ req.type = "function") => ret = "auto"
           /\ ~(req.kind = "string" /\ req.str \in {"auto", "none"})
                /\ ~(req.kind = "map" /\ req.type = "function") => ret = ""

\* a structured choice forcing function foo was converted
C15_Witness ==
    /\ pc = "convertToolChoice"
    /\ req.kind = "map" /\ req.type = "function" /\ req.name = "foo"
    /\ ret = "auto"

\* tool calls as the JSON carries them: id, type, function name, arguments
ToolCalls ==
    {[id |-> "c1", type |-> "function", name |-> "f", args |-> "{}"],
     [id |-> "c2", type |-> "custom", name |-> "g", args |-> "{}"],
     [id |-> "c3", type |-> "function", name |-> "", args |-> "{}"],
     [id |-> "c4", type |-> "", name |-> "", args |-> "{}"]}

\* the lists of at most n elements of S
RECURSIVE ListsUpTo(_, _)
ListsUpTo(S, n) ==
    IF n = 0 THEN {<<>>}
    ELSE LET shorter == ListsUpTo(S, n - 1)
         IN shorter \cup {Append(l, x) : l \in shorter, x \in S}

\* the tool-call lists of up to MaxCalls entries
ToolCallLists == ListsUpTo(ToolCalls, MaxCalls)

\* convertResponseToolCalls(toolCalls): entries without a function name are
\* left out
convertResponseToolCalls(toolCalls) ==
    SelectSeq(toolCalls, LAMBDA tc : tc.name # "")

\* handleRegularResponse of the openrouter package: every tool call of the
\* provider's message gets type "function" and the response is re-marshalled
retagToolCalls(toolCalls) ==
    [i \in 1..Len(toolCalls) |-> [toolCalls[i] EXCEPT !.type = "function"]]

\* the tool calls a backend's unary handler delivers for the provider's list
ReturnedToolCalls(b, toolCalls) ==
    IF b.name = "openrouter" THEN retagToolCalls(toolCalls)
    ELSE convertResponseToolCalls(toolCalls)

\* the return path applied to the tool calls of a provider message; req keeps
\* the provider's list, ret the list delivered
ApplyReturnToolCalls ==
    /\ pc = "input" /\ cfg.b.name \in {"openrouter", "deepseek"}
    /\ \E tcs \in ToolCallLists :
        /\ req' = tcs
        /\ ret' = ReturnedToolCalls(cfg.b, tcs)
    /\ pc' = "returnToolCalls"
    /\ UNCHANGED <<cfg, w, ctxs, prov, up, relay, now, logs>>

\* the entries of a list that name a function, in order
RECURSIVE Named(_)
Named(tcs) ==
    IF tcs = <<>> THEN <<>>
    ELSE IF Head(tcs).name = "" THEN Named(Tail(tcs))
    ELSE <<Head(tcs)>> \o Named(Tail(tcs))

\* C16: the tool-call list a unary handler delivers is the provider's list
\* without the entries whose function name is empty: the others are kept in
\* order with id, name and arguments unchanged.
C16_EmptyNamedToolCallsRemoved ==
    pc = "returnToolCalls"
        => /\ Len(ret) = Len(Named(req))
           /\ \A i \in 1..Len(ret) :
                /\ ret[i].id = Named(req)[i].id
                /\ ret[i].name = Named(req)[i].name
                /\ ret[i].args = Named(req)[i].args

\* texts are token strings; Sep is the separator convertMessages inserts
Sep == "; "
Texts == {<<"a">>, <<"b">>, <<>>}

\* content parts as the JSON carries them: a text part (whose "text" may be
\* missing), or a part of another type
RawParts ==
    {[type |-> "text", hasText |-> TRUE, text |-> t] : t \in Texts}
    \cup {[type |-> "text", hasText |-> FALSE, text |-> <<>>],
          [type |-> "image_url", hasText |-> FALSE, text |-> <<>>]}

\* message contents as the JSON carries them: null, a string, an array
RawContents ==
    {[kind |-> "null", str |-> <<>>, parts |-> <<>>]}
    \cup {[kind |-> "string", str |-> t, parts |-> <<>>] : t \in {<<>>, <<"a">>}}
    \cup {[kind |-> "array", str |-> <<>>, parts |-> ps] :
            ps \in ListsUpTo(RawParts, MaxParts)}

Roles == {"user", "assistant", "function", "tool"}

RawMessages ==
    [role : Roles, content : RawContents, tool_calls : ToolCallLists]

\* Message.UnmarshalJSON: a text part becomes a ContentPart_Text (the type
\* assertion val["text"].(string) panics when there is no string), a part of
\* another type is logged and its slot stays nil
UnmarshalJSON(raw) ==
    IF \E i \in 1..Len(raw.content.parts) :
            raw.content.parts[i].type = "text" /\ ~raw.content.parts[i].hasText
    THEN [panic |-> TRUE, msg |-> raw]
    ELSE [panic |-> FALSE,
          msg |-> [raw EXCEPT !.content.parts =
                     [i \in 1..Len(@) |->
                        IF @[i].type = "text"
                        THEN [nil |-> FALSE, text |-> @[i].text]
                        ELSE [nil |-> TRUE, text |-> <<>>]]]]

\* Content_Array.GetContentPartTextAtIndex(i): nil for an empty slot
GetContentPartTextAtIndex(a, i) == IF a[i].nil THEN [nil |-> TRUE] ELSE a[i]

\* the loop over a content array in convertMessages: .Text of a nil part is
\* a nil dereference; a non-empty text is appended after a separator
RECURSIVE FlattenFrom(_, _, _)
FlattenFrom(a, i, content) ==
    IF i > Len(a) THEN [panic |-> FALSE, content |-> content]
    ELSE IF GetContentPartTextAtIndex(a, i).nil THEN [panic |-> TRUE, content |-> content]
    ELSE LET t == GetContentPartTextAtIndex(a, i).text
         IN FlattenFrom(a, i + 1, IF t # <<>> THEN content \o <<Sep>> \o t ELSE content)

\* the content switch of convertMessages
convertContent(c) ==
    CASE c.kind = "string" -> [panic |-> FALSE, content |-> c.str]
      [] c.kind = "array" -> FlattenFrom(c.parts, 1, <<>>)
      [] OTHER -> [panic |-> FALSE, content |-> <<>>]

\* convertToolCalls(toolCalls, toolType)
convertToolCalls(toolCalls, toolType) ==
    [i \in 1..Len(toolCalls) |->
        [toolCalls[i] EXCEPT !.type = IF toolType # "" THEN toolType ELSE @]]

\* one message through convertMessages of the openrouter package
openrouterConvertMessage(msg) ==
    [role |-> IF msg.role \in {"function", "tool"} THEN "tool" ELSE msg.role,
     content |-> convertContent(msg.content).content,
     tool_calls |-> IF msg.role = "function" THEN convertToolCalls(msg.tool_calls, "")
                    ELSE IF msg.role = "assistant" /\ Len(msg.tool_calls) > 0
                    THEN convertToolCalls(msg.tool_calls, "function")
                    ELSE <<>>]

\* one message through convertMessages of the deepseek package
deepseekConvertMessage(msg) ==
    [role |-> IF msg.role = "function" THEN "tool" ELSE msg.role,
     content |-> convertContent(msg.content).content,
     tool_calls |-> IF msg.role = "assistant" /\ Len(msg.tool_calls) > 0
                    THEN convertToolCalls(msg.tool_calls, "function")
                    ELSE <<>>]

\* one message through convertMessages of the ollama package
ollamaConvertMessage(msg) ==
    [role |-> msg.role,
     content |-> convertContent(msg.content).content,
     tool_calls |-> <<>>]

\* convertMessages of backend b on decoded messages
convertMessages(b, messages) ==
    IF \E i \in 1..Len(messages) : convertContent(messages[i].content).panic
    THEN [panic |-> TRUE, messages |-> <<>>]
    ELSE [panic |-> FALSE,
          messages |-> [i \in 1..Len(messages) |->
                          CASE b.name = "openrouter" -> openrouterConvertMessage(messages[i])
                            [] b.name = "deepseek" -> deepseekConvertMessage(messages[i])
                            [] OTHER -> ollamaConvertMessage(messages[i])]]

\* a request with one message is decoded and its messages are converted;
\* req keeps the message as sent, ret the outcome
ApplyConvertMessages ==
    /\ pc = "input"
    /\ \E raw \in RawMessages :
        /\ req' = raw
        /\ ret' = LET d == UnmarshalJSON(raw)
                  IN IF d.panic THEN [panic |-> TRUE, messages |-> <<>>]
                     ELSE convertMessages(cfg.b, <<d.msg>>)
    /\ pc' = "convertMessages"
    /\ UNCHANGED <<cfg, w, ctxs, prov, up, relay, now, logs>>

NextConvert == ApplyConvertMessages \/ ApplyConvertToolChoice \/ ApplyReturnToolCalls

SpecConvert == InitConvert /\ [][NextConvert]_vars

\* the content array of the request holds text parts only
OnlyTextParts ==
    /\ req.content.kind = "array"
    /\ \A i \in 1..Len(req.content.parts) :
        req.content.parts[i].type = "text" /\ req.content.parts[i].hasText

\* t1 + "; " + t2 + ... + "; " + tn
RECURSIVE Join(_)
Join(parts) ==
    IF parts = <<>> THEN <<>>
    ELSE IF Len(parts) = 1 THEN parts[1].text
    ELSE parts[1].text \o <<Sep>> \o Join(Tail(parts))

\* C17: a content array of text parts t1..tn is flattened to
\* t1 + "; " + ... + "; " + tn, the separator between parts only, and an
\* array without parts gives the empty string; no error either way.
C17_TextPartsJoinedBySeparator ==
    (pc = "convertMessages" /\ OnlyTextParts)
        => /\ ~ret.panic
           /\ ret.messages[1].content = Join(req.content.parts)

\* the texts of the well-formed text parts of the request, concatenated
RECURSIVE TextOf(_)
TextOf(parts) ==
    IF parts = <<>> THEN <<>>
    ELSE (IF Head(parts).type = "text" THEN Head(parts).text ELSE <<>>) \o TextOf(Tail(parts))

\* C18: a content array holding a part of a type other than text (its text
\* parts well formed) is decoded and converted without a panic, and the
\* converted content consists of the texts of the remaining text parts.
C18_NonTextPartSkipped ==
    (/\ pc = "convertMessages"
     /\ req.content.kind = "array"
     /\ \E i \in 1..Len(req.content.parts) : req.content.parts[i].type # "text"
     /\ \A i \in 1..Len(req.content.parts) :
            req.content.parts[i].type = "text" => req.content.parts[i].hasText)
        => /\ ~ret.panic
           /\ SelectSeq(ret.messages[1].content, LAMBDA tok : tok # Sep)
                = TextOf(req.content.parts)

\* C19: a message with the legacy role function comes out of the DeepSeek and
\* the OpenRouter converter with role tool and all its tool calls, in order,
\* ids, names and arguments unchanged, each with type "function".
C19_FunctionRoleKeepsToolCalls ==
    (/\ pc = "convertMessages"
     /\ cfg.b.name \in {"openrouter", "deepseek"}
     /\ req.role = "function"
     /\ ~ret.panic)
        => /\ ret.messages[1].role = "tool"
           /\ Len(ret.messages[1].tool_calls) = Len(req.tool_calls)
           /\ \A i \in 1..Len(req.tool_calls) :
                /\ ret.messages[1].tool_calls[i].id = req.tool_calls[i].id
                /\ ret.messages[1].tool_calls[i].name = req.tool_calls[i].name
                /\ ret.messages[1].tool_calls[i].args = req.tool_calls[i].args
                /\ ret.messages[1].tool_calls[i].type = "function"

\* a chunk written to the client is one complete SSE frame: a data line and
\* the blank line after it (fmt.Fprintf(w, "data: %s\n\n", ...) writes one; a
\* relayed group of upstream lines is one when it ends with the blank line;
\* JSON written by WriteJSON is none)
CompleteFrame(c) ==
    \/ c.t = "event"
    \/ c.t = "raw" /\ c.lines[Len(c.lines)].k = "blank"

\* C20: every event chunk a streaming relay has forwarded to the client is
\* one complete SSE frame, data: <payload> followed by a blank line; the
\* blank line ending an upstream event is never dropped, for every backend.
C20_ForwardedChunksAreCompleteFrames ==
    req.stream => \A i \in Events : CompleteFrame(w.body[i])

----------------------------------------------------------------------------
(* Progress of the streaming relays *)

\* one turn of whichever relay loop serves the exchange
RelayStep ==
    ollamaRelayStep \/ ollamaARelayStep \/ openrouterRelayStep \/ deepseekRelayStep

\* the relay's goroutine is scheduled whenever its next turn can change
\* anything, and so is a heartbeat goroutine whose context is done; nothing
\* is assumed about the client, the clock or the provider
SpecLive == Init /\ [][Next]_vars /\ WF_vars(RelayStep) /\ WF_vars(heartbeatStop)

\* the relay has read everything the provider sent and the body is at EOF
StreamEnded == pc = "relay" /\ relay.state = "open" /\ AtEOF

\* C21: once the upstream stream has reached EOF the relay closes and the
\* handler returns, without a cancellation, a failed heartbeat write or a
\* timeout having to end it; for every backend's relay.
C21_UpstreamEOFClosesRelay ==
    StreamEnded ~> (relay.state = "closed" /\ pc # "relay")

\* C22: once a streaming relay has returned (closed, whatever the cause) no
\* task it started writes to or flushes the response writer any more: the
\* heartbeat task and the reader have stopped before the relay returns.
C22_NoWriteAfterRelayReturned ==
    [][relay.state = "closed" => (w'.body = w.body /\ w'.flushes = w.flushes)]_vars

\* a relay has been started for the exchange
RelayStarted == relay.state \in {"open", "closed"}

\* C23: every streaming relay starts exactly one heartbeat task, and that
\* task terminates once the relay has closed, whatever closed it.
C23_OneHeartbeatTaskThatTerminates ==
    /\ [](RelayStarted => relay.hb \in {"running", "stopped"})
    /\ (relay.state = "closed") ~> (relay.hb # "running")

\* a streaming exchange whose provider answered 200, served through a writer
\* that is no http.Flusher, at or after the start of the relay
UnflushedStream ==
    /\ req.stream /\ ~IsFlusher(w)
    /\ prov.calls = 1 /\ up.status = 200
    /\ pc = "relay" \/ HandlerReturned

\* C24: a response writer without flush support does not make a streaming
\* request fail: the relay is started all the same, and the client is sent
\* no error on account of the missing flush.
C24_MissingFlushIsNotFatal ==
    UnflushedStream
        => /\ RelayStarted
           /\ \A i \in 1..Len(w.body) :
                ~(w.body[i].t = "text" /\ w.body[i].msg = "Streaming unsupported")

----------------------------------------------------------------------------
(* withContext under concurrent requests *)

MaxReqs == 2            \* requests in flight at once

Reqs == 1..MaxReqs

\* utils.GenerateRequestID(): eight random bytes, a fresh value per call
GenerateRequestID(i) == <<"generated", i>>

\* One handler value built by Wrap serves every request, each on its own
\* goroutine. The closure's variable ctx (the parameter of withContext) is
\* shared by all of them; a context value is described by the connection it
\* derives from (base) and the request id stored in it (rid, a token string,
\* empty when there is none). Here ctxs holds
\* the shared variable and the cancelled connections, req the requests (the
\* X-Request-ID sent, the local requestID, the context handed to next), w the
\* X-Request-ID header of each response, pc each goroutine's position.
InitWrap ==
    /\ cfg \in {c \in Configs : c.entry = "server" /\ ServerOf(c.b.name) = "wrap"}
    /\ ctxs = [shared |-> [base |-> 0, rid |-> <<>>], cancelled |-> {}]
    /\ req \in [Reqs -> {[sent |-> s, requestID |-> <<>>, ctx |-> [base |-> 0, rid |-> <<>>]] :
                            s \in {<<>>, <<"client-id">>}}]
    /\ w = [i \in Reqs |-> <<>>]
    /\ pc = [i \in Reqs |-> "WithTimeout"]
    /\ prov = NoProv
    /\ up = NoUp
    /\ relay = NoRelay
    /\ ret = "none"
    /\ now = 0
    /\ logs = {}

\* ctx, _ = context.WithTimeout(r.Context(), timeout), then the request id
\* is taken from the header or generated
WithTimeout(i) ==
    /\ pc[i] = "WithTimeout"
    /\ ctxs' = [ctxs EXCEPT !.shared = [base |-> i, rid |-> <<>>]]
    /\ req' = [req EXCEPT ![i].requestID =
                 IF req[i].sent = <<>> THEN GenerateRequestID(i) ELSE req[i].sent]
    /\ pc' = [pc EXCEPT ![i] = "WithRequestID"]
    /\ UNCHANGED <<cfg, w, prov, up, relay, ret, now, logs>>

\* ctx = contextutils.WithRequestID(ctx, requestID), then
\* w.Header().Set("X-Request-ID", requestID)
WithRequestID(i) ==
    /\ pc[i] = "WithRequestID"
    /\ ctxs' = [ctxs EXCEPT !.shared.rid = req[i].requestID]
    /\ w' = [w EXCEPT ![i] = req[i].requestID]
    /\ pc' = [pc EXCEPT ![i] = "WithContext"]
    /\ UNCHANGED <<cfg, req, prov, up, relay, ret, now, logs>>

\* r = r.WithContext(ctx); next.ServeHTTP(w, r)
WithContext(i) ==
    /\ pc[i] = "WithContext"
    /\ req' = [req EXCEPT ![i].ctx = ctxs.shared]
    /\ pc' = [pc EXCEPT ![i] = "next"]
    /\ UNCHANGED <<cfg, w, ctxs, prov, up, relay, ret, now, logs>>

\* the client of request i goes away: r.Context() of that request is done
CancelRequest(i) ==
    /\ i \notin ctxs.cancelled
    /\ ctxs' = [ctxs EXCEPT !.cancelled = @ \cup {i}]
    /\ UNCHANGED <<cfg, req, pc, w, prov, up, relay, ret, now, logs>>

NextWrap ==
    \E i \in Reqs :
        WithTimeout(i) \/ WithRequestID(i) \/ WithContext(i) \/ CancelRequest(i)

SpecWrap == InitWrap /\ [][NextWrap]_vars

\* C25: each request's downstream handler runs with a context derived from
\* that same request: the request id in it is the X-Request-ID of the
\* request's own response, and it is done only when its own request is.
C25_ContextBelongsToItsRequest ==
    \A i \in Reqs :
        pc[i] = "next"
            => /\ req[i].ctx.rid = w[i]
               /\ req[i].ctx.base = i

\* the exchange came through the chain built by middleware.Wrap
ThroughWrap == cfg.entry = "server" /\ ServerOf(cfg.b.name) = "wrap"

\* ... and is inside Backend.HandleChatCompletion
ServedByBackend == ThroughWrap /\ pc \in {"backend", "calling", "response", "relay"}

\* C26: the writer the server's middleware chain hands to the backend
\* supports flushing (the connection's writer does), so a stream:true request
\* whose provider answered 200 gets its relay instead of being rejected as
\* streaming-unsupported.
C26_ChainKeepsFlushSupport ==
    /\ ServedByBackend => IsFlusher(w)
    /\ (ThroughWrap /\ req.stream /\ prov.calls = 1 /\ up.status = 200
            /\ (pc = "relay" \/ HandlerReturned))
        => RelayStarted

\* the upstream lines that carry a chunk (by their position in the stream)
ReceivedData == {up.lines[i].n : i \in {j \in 1..Len(up.lines) : up.lines[j].k = "data"}}

\* the upstream lines that went out to the client, alone or inside an event
ForwardedData ==
    UNION {IF w.body[i].t = "raw"
           THEN {w.body[i].lines[j].n :
                    j \in {x \in 1..Len(w.body[i].lines) : w.body[i].lines[x].k = "data"}}
           ELSE {w.body[i].n} : i \in Events}

\* the stream ended at EOF and the relay has dealt with everything it read,
\* with no failure, cancellation or timeout on the way
StreamReadToEOF ==
    /\ RelayStarted /\ up.eof /\ relay.pos = Len(up.lines)
    /\ relay.state = "closed" \/ relay.buf = <<>>
    /\ ~up.failed /\ ~prov.abort /\ ctxs.cancelled \subseteq {"stream"}
    /\ \A i \in 1..Len(w.body) : w.body[i].t # "text"

\* C27: a streaming relay loses no upstream data: every chunk line received
\* before EOF has been forwarded, a last line or event without its newline
\* or blank line included.
C27_NoUpstreamDataLost ==
    StreamReadToEOF => ReceivedData \subseteq ForwardedData

----------------------------------------------------------------------------
(* The two goroutines of the deepseek relay and the writer they share *)

\* the read loop (the handler's goroutine) and the heartbeat goroutine
Tasks == {"reader", "heartbeat"}

\* Here pc holds each goroutine's position: "wait" (the select, or
\* ReadBytes), "Write" and "Flush" (inside that call on w), "returned";
\* relay counts the lines read and the ticks; ret holds what a goroutine is
\* about to write.
InitWriters ==
    /\ cfg \in {c \in Configs : c.b.name = "deepseek"}
    /\ req = NoReq
    /\ pc = [t \in Tasks |-> "wait"]
    /\ w = WriteHeader(StreamHeaders(NewWriter), 200)
    /\ ctxs = WithChild(RootCtxs, "stream", "conn", FALSE)
    /\ prov = NoProv
    /\ up = NoUp
    /\ relay = OpenRelay("stream", "running")
    /\ ret = [t \in Tasks |-> [t |-> "none", n |-> 0]]
    /\ now = 0
    /\ logs = {}

\* the heartbeat goroutine's select takes a tick (also when ctx.Done() is
\* ready as well: select chooses among the ready cases)
tickerFires ==
    /\ pc["heartbeat"] = "wait"
    /\ relay.beats < MaxBeats
    /\ relay' = [relay EXCEPT !.beats = @ + 1]
    /\ ret' = [ret EXCEPT !["heartbeat"] = [t |-> "heartbeat", n |-> 0]]
    /\ pc' = [pc EXCEPT !["heartbeat"] = "Write"]
    /\ UNCHANGED <<cfg, req, w, ctxs, prov, up, now, logs>>

\* the read loop sees its context live and reads a line; a blank line is
\* skipped
ReadBytes ==
    /\ pc["reader"] = "wait"
    /\ ~Done(ctxs, relay.ctx)
    /\ relay.pos < MaxChunks
    /\ relay' = [relay EXCEPT !.pos = @ + 1]
    /\ \E blank \in BOOLEAN :
        IF blank THEN UNCHANGED <<ret, pc>>
        ELSE /\ ret' = [ret EXCEPT !["reader"] = [t |-> "raw", n |-> relay.pos + 1]]
             /\ pc' = [pc EXCEPT !["reader"] = "Write"]
    /\ UNCHANGED <<cfg, req, w, ctxs, prov, up, now, logs>>

\* w.Write(...) of a goroutine completes: on an error the goroutine cancels
\* the stream context and returns
WriteReturns(t) ==
    /\ pc[t] = "Write"
    /\ IF WriteFails
       THEN /\ ctxs' = Cancel(ctxs, "stream")
            /\ pc' = [pc EXCEPT ![t] = "returned"]
            /\ logs' = Log("deepseek", IF t = "heartbeat" THEN <<"Error sending heartbeat">>
                                       ELSE <<"Error writing to response">>)
            /\ w' = w
       ELSE /\ w' = Write(w, ret[t])
            /\ pc' = [pc EXCEPT ![t] = "Flush"]
            /\ UNCHANGED <<ctxs, logs>>
    /\ UNCHANGED <<cfg, req, prov, up, relay, ret, now>>

\* f.Flush() of a goroutine completes and the goroutine loops
FlushReturns(t) ==
    /\ pc[t] = "Flush"
    /\ w' = FlushIf(w)
    /\ pc' = [pc EXCEPT ![t] = "wait"]
    /\ UNCHANGED <<cfg, req, ctxs, prov, up, relay, ret, now, logs>>

\* a goroutine takes the ctx.Done() case and returns; the handler's return
\* runs the deferred cancel()
TaskReturns(t) ==
    /\ pc[t] = "wait"
    /\ Done(ctxs, relay.ctx)
    /\ pc' = [pc EXCEPT ![t] = "returned"]
    /\ ctxs' = IF t = "reader" THEN Cancel(ctxs, "stream") ELSE ctxs
    /\ UNCHANGED <<cfg, req, w, prov, up, relay, ret, now, logs>>

\* the client goes away
ClientGone ==
    /\ "conn" \notin ctxs.cancelled
    /\ ctxs' = Cancel(ctxs, "conn")
    /\ UNCHANGED <<cfg, req, pc, w, prov, up, relay, ret, now, logs>>

NextWriters ==
    \/ tickerFires \/ ReadBytes
    \/ \E t \in Tasks : WriteReturns(t) \/ FlushReturns(t) \/ TaskReturns(t)
    \/ ClientGone

SpecWriters == InitWriters /\ [][NextWriters]_vars

\* C28: in the deepseek relay the heartbeat goroutine and the read loop are
\* never inside a Write or Flush on the shared response writer at the same
\* time.
C28_WritesMutuallyExclusive ==
    ~(pc["reader"] \in {"Write", "Flush"} /\ pc["heartbeat"] \in {"Write", "Flush"})

\* C29: every request the DeepSeek or the OpenRouter backend sends to its
\* provider carries Authorization "Bearer " followed by the API key the
\* backend was constructed with (cfg.apikey, the key in the Options).
C29_ProviderCallCarriesConfiguredKey ==
    (prov.calls >= 1 /\ cfg.b.name \in {"openrouter", "deepseek"})
        => prov.auth = <<Bearer>> \o cfg.apikey

\* the tokens of a string
TokensOf(s) == {s[i] : i \in 1..Len(s)}

\* C30: nothing logged while a request is authenticated contains the bearer
\* token the client presented, whether the token is accepted or rejected.
C30_AuthLogsHoldNoToken ==
    \A l \in logs :
        l.src = "auth" => TokensOf(l.msg) \cap TokensOf(TrimPrefix(req.auth)) = {}

====
